---------------------------- MODULE Spec2Model ----------------------------
(***************************************************************************)
(* Model of the province knowledge-graph pipeline:                         *)
(*   scripts/merge_rdf.py  build_label_index, parse_mapping_csv (with its  *)
(*                         inner get_cell), merge_graph (with its inner    *)
(*                         resolve)                                        *)
(*   rag/rag_service.py    RAGIndex.build and RAGIndex.search              *)
(*                                                                         *)
(* A Python str is a sequence of Unicode code points (naturals); None is   *)
(* the value NoneV, which is no string.  A dict is the sequence of its     *)
(* items in insertion order.  An RDF term is a record: a URIRef has        *)
(* kind "uri", a namespace and a local name; a Literal has kind "lit".     *)
(***************************************************************************)
EXTENDS Integers, Sequences, FiniteSets, TLC

VARIABLES
    provLabels,     \* the (s, rdfs:label, o) triples of prov_graph, in iteration order
    label_to_uri,   \* build_label_index: the dict under construction / returned
    idxPc,          \* "start" | "built"
    resolved,       \* the answers resolve() has given so far: set of [q, r]
    fieldnames,     \* csv.DictReader.fieldnames
    rowsRead,       \* the data rows (lists of cells) the reader has yielded so far
    mappings,       \* parse_mapping_csv / merge_graph: list of <<old_label, new_label>>
    lastCells,      \* the two get_cell() results of the row processed last
    parsePc,        \* "reading" | "returned" | "raised"
    pairIdx,        \* merge_graph: number of pairs the for loop has consumed
    merged,         \* merge_graph: the output Graph, a set of triples
    mergePc,        \* merge_graph: "loop" | "returned"
    corpus,         \* RAGIndex.corpus
    index,          \* RAGIndex.index
    buildPc,        \* position of the thread inside RAGIndex.build
    builds,         \* the builds so far: [n |-> facts received, done |-> completed]
    searchPc,       \* position of the thread inside RAGIndex.search
    searchLoc,      \* locals of the running search
    searchOut       \* what finished searches returned or raised

idxVars   == <<provLabels, label_to_uri, idxPc, resolved>>
parseVars == <<fieldnames, rowsRead, mappings, lastCells, parsePc>>
mergeVars == <<pairIdx, merged, mergePc>>
ragVars   == <<corpus, index, buildPc, builds, searchPc, searchLoc, searchOut>>
vars      == <<idxVars, parseVars, mergeVars, ragVars>>

---------------------------------------------------------------------------
(* Python str operations, on sequences of code points.                     *)

NoneV == <<-1>>

\* str.isspace() for one character: the code points Python's strip() removes.
IsSpace(c) ==
    c \in (9..13) \cup (28..32) \cup {133, 160, 5760, 8232, 8233, 8239, 8287, 12288}
          \cup (8192..8202)

\* str.lower() for one character, on the blocks the model's alphabet is drawn
\* from: ASCII, Latin-1, Latin Extended-A (U+0100..U+0137) and Latin Extended
\* Additional (U+1E00..U+1EFF), where upper case is the even code point; the
\* characters of these blocks that lower() leaves or expands (U+0130,
\* U+1E96..U+1E9F) are kept out of the pairing.
LowerChar(c) ==
    IF c \in 65..90 THEN c + 32
    ELSE IF c \in (192..222) \ {215} THEN c + 32
    ELSE IF c \in ((256..311) \ {304}) /\ c % 2 = 0 THEN c + 1
    ELSE IF c \in ((7680..7935) \ (7830..7839)) /\ c % 2 = 0 THEN c + 1
    ELSE c

Lower(s) == [i \in 1..Len(s) |-> LowerChar(s[i])]

RECURSIVE LStrip(_)
LStrip(s) == IF s # <<>> /\ IsSpace(Head(s)) THEN LStrip(Tail(s)) ELSE s

RECURSIVE RStrip(_)
RStrip(s) ==
    IF s # <<>> /\ IsSpace(s[Len(s)]) THEN RStrip(SubSeq(s, 1, Len(s) - 1)) ELSE s

Strip(s) == RStrip(LStrip(s))

\* s.replace(a, b) for one-character a and b.
Replace(s, a, b) == [i \in 1..Len(s) |-> IF s[i] = a THEN b ELSE s[i]]

\* s.split(sep) for a one-character sep: always at least one part.
RECURSIVE SplitFrom(_, _, _, _)
SplitFrom(s, sep, i, cur) ==
    IF i > Len(s) THEN <<cur>>
    ELSE IF s[i] = sep THEN <<cur>> \o SplitFrom(s, sep, i + 1, <<>>)
    ELSE SplitFrom(s, sep, i + 1, Append(cur, s[i]))

Split(s, sep) == SplitFrom(s, sep, 1, <<>>)

---------------------------------------------------------------------------
(* Python dict, as the sequence of its items [k, v] in insertion order.    *)

DictHas(d, k) == \E i \in 1..Len(d) : d[i].k = k

DictGet(d, k) ==
    IF DictHas(d, k) THEN d[CHOOSE i \in 1..Len(d) : d[i].k = k].v ELSE NoneV

\* d[k] = v: a present key keeps its position and takes the new value.
DictSet(d, k, v) ==
    IF DictHas(d, k)
    THEN [i \in 1..Len(d) |-> IF d[i].k = k THEN [k |-> k, v |-> v] ELSE d[i]]
    ELSE Append(d, [k |-> k, v |-> v])

DictKeys(d) == {d[i].k : i \in 1..Len(d)}

---------------------------------------------------------------------------
(* RDF terms and predicates.                                               *)

DBR   == "http://dbpedia.org/resource/"
ENTNS == "http://example.org/vn/entity/"

URIRef(ns, local) == [kind |-> "uri", ns |-> ns, val |-> local]
Literal(s)        == [kind |-> "lit", ns |-> "", val |-> s]
EXProvince        == [kind |-> "uri", ns |-> "http://example.org/vn/ontology#Province", val |-> <<>>]
NoneURI           == [kind |-> "none", ns |-> "", val |-> <<>>]

Triple(s, p, o) == [s |-> s, p |-> p, o |-> o]

---------------------------------------------------------------------------
(* Inputs: small alphabets of labels and identifiers.                      *)

MaxEntries == 2     \* label triples in prov_graph

sAb    == <<65, 98>>            \* "Ab"
sabSp  == <<97, 98, 32>>        \* "ab "
sAB    == <<65, 66>>            \* "AB"
sY     == <<89>>                \* "Y"
sU     == <<85>>                \* "U", a label no entity carries
scd    == <<99, 100>>           \* "cd"
sCd    == <<67, 100>>           \* "Cd"
sDaNang == <<272, 224, 32, 78, 7861, 110, 103>>    \* "Đà Nẵng"

uriA == URIRef(DBR, <<65>>)
uriB == URIRef(DBR, <<66>>)

\* The objects a label triple of prov_graph can have: Literals, and a
\* non-Literal node (which build_label_index passes over).
LabelObjects == {Literal(sAb), Literal(sabSp), Literal(sY), uriB}
LabelTriples == {Triple(s, "rdfs:label", o) : s \in {uriA, uriB}, o \in LabelObjects}

RECURSIVE SeqsUpTo(_, _)
SeqsUpTo(S, n) ==
    IF n = 0 THEN {<<>>}
    ELSE LET shorter == SeqsUpTo(S, n - 1)
         IN  shorter \cup {Append(q, x) : q \in {r \in shorter : Len(r) = n - 1}, x \in S}

Queries == {sAB, sabSp, sY, sU}

---------------------------------------------------------------------------
(* scripts/merge_rdf.py: build_label_index and merge_graph.resolve         *)

\* key = str(o).strip().lower()
NormKey(label) == Lower(Strip(label))

\* The loop without its `if key not in label_to_uri`: the last entry wins.
IndexInsertLast(d, t) ==
    IF t.o.kind = "lit" THEN DictSet(d, NormKey(t.o.val), t.s) ELSE d

\* One iteration of the for loop of build_label_index.
IndexInsert(d, t) ==
    IF t.o.kind = "lit"
    THEN LET key == NormKey(t.o.val)
         IN  IF ~DictHas(d, key) THEN DictSet(d, key, t.s) ELSE d
    ELSE d

RECURSIVE BuildFrom(_, _, _)
BuildFrom(ts, i, d) ==
    IF i > Len(ts) THEN d ELSE BuildFrom(ts, i + 1, IndexInsert(d, ts[i]))

build_label_index(ts) == BuildFrom(ts, 1, <<>>)

\* resolve(label): label_index.get(label.strip().lower())
resolve(d, label) ==
    LET key == NormKey(label)
    IN  IF DictHas(d, key) THEN DictGet(d, key) ELSE NoneURI


---------------------------------------------------------------------------
(* scripts/merge_rdf.py: merge_graph                                       *)

MaxPairs == 2       \* pairs in the mappings list handed to merge_graph

\* Pairs as parse_mapping_csv produces them: both labels trimmed, non-empty.
OldLabels == {sAB, sU}
NewLabels == {sY, scd, sCd, sDaNang}
PairUniverse == {<<o, n>> : o \in OldLabels, n \in NewLabels}

\* The prov_graph label triples merge_graph is run against.
MergeGraphs ==
    { <<>>,
      <<Triple(uriA, "rdfs:label", Literal(sAb))>>,
      <<Triple(uriA, "rdfs:label", Literal(sAb)), Triple(uriB, "rdfs:label", Literal(sY))>>,
      <<Triple(uriB, "rdfs:label", Literal(sabSp)), Triple(uriA, "rdfs:label", Literal(sAb))>>,
      <<Triple(uriA, "rdfs:label", Literal(sAb)), Triple(uriB, "rdfs:label", Literal(sDaNang))>> }

\* Slugify without the replacement of đ.
SlugifyKeepsD(label) == Replace(Lower(Strip(label)), 32, 45)

\* new_label.strip().lower().replace(" ", "-").replace("đ", "d").replace("Đ", "D")
Slugify(label) ==
    Replace(Replace(Replace(Lower(Strip(label)), 32, 45), 273, 100), 272, 68)

\* URIRef(f"http://example.org/vn/entity/{slug}")
MintURI(label) == URIRef(ENTNS, Slugify(label))

\* The three merged.add calls for a minted identifier.
MintTriples(new_uri, new_label) ==
    { Triple(new_uri, "rdf:type", EXProvince),
      Triple(new_uri, "rdfs:label", Literal(new_label)),
      Triple(new_uri, "ex:canonicalLabel", Literal(new_label)) }

\* if new_uri is None: the graph after the minting branch.
AfterMint(g, d, new_label) ==
    IF resolve(d, new_label) = NoneURI
    THEN g \cup MintTriples(MintURI(new_label), new_label)
    ELSE g

\* new_uri as it stands after the minting branch.
NewURI(d, new_label) ==
    IF resolve(d, new_label) = NoneURI THEN MintURI(new_label) ELSE resolve(d, new_label)

\* The loop without its `continue`.
SkipNever(old_uri) == FALSE

\* if old_uri is None: continue
SkipPair(old_uri) == old_uri = NoneURI

\* (old_uri, RDF.type, None) not in merged
Untyped(g, u) == ~ \E t \in g : t.s = u /\ t.p = "rdf:type"

\* The typing of the old entity, first writer only.
OldTriples(g, old_uri, old_label) ==
    IF Untyped(g, old_uri)
    THEN { Triple(old_uri, "rdf:type", EXProvince),
           Triple(old_uri, "ex:canonicalLabel", Literal(old_label)) }
    ELSE {}

\* The loop without its second edge.
EdgeOnlyFormedBy(new_uri, old_uri) == {Triple(new_uri, "ex:formedBy", old_uri)}

\* The two provenance edges of a pair.
EdgeTriples(new_uri, old_uri) ==
    { Triple(new_uri, "ex:formedBy", old_uri),
      Triple(old_uri, "ex:mergedInto", new_uri) }

\* One iteration of the for loop of merge_graph: the graph it leaves.
MergePair(g, d, pair) ==
    LET old_label == pair[1]
        new_label == pair[2]
        old_uri   == resolve(d, old_label)
        new_uri   == NewURI(d, new_label)
        g1        == AfterMint(g, d, new_label)
    IN  IF SkipPair(old_uri) THEN g1
        ELSE g1 \cup OldTriples(g1, old_uri, old_label) \cup EdgeTriples(new_uri, old_uri)


---------------------------------------------------------------------------
(* scripts/merge_rdf.py: parse_mapping_csv and its inner get_cell          *)

MaxCols == 2        \* columns in the header line of the mapping table
MaxRows == 2        \* data rows read from the mapping table

kNew == <<110, 101, 119, 95, 112, 114, 111, 118, 105, 110, 99, 101>>    \* "new_province"
kOld == <<111, 108, 100, 95, 112, 114, 111, 118, 105, 110, 99, 101>>    \* "old_province"

hNewSp  == <<32, 110, 101, 119, 95, 112, 114, 111, 118, 105, 110, 99, 101>>    \* " new_province"
hNewCap == <<78, 101, 119, 95, 80, 114, 111, 118, 105, 110, 99, 101>>    \* "New_Province"
hOldCap == <<79, 108, 100, 95, 80, 114, 111, 118, 105, 110, 99, 101, 32>>    \* "Old_Province "

Headers == {kNew, hNewSp, hNewCap, kOld, hOldCap}
HeaderLists == SeqsUpTo(Headers, MaxCols) \ {<<>>}

cEmpty == <<>>
cA     == <<65>>                                \* "A"
cBC    == <<32, 66, 32, 124, 124, 32, 67, 32>>  \* " B || C "
Cells  == {cEmpty, cA, cBC}

\* A data row may be shorter or longer than the header line.
CellRows == SeqsUpTo(Cells, MaxCols + 1) \ {<<>>}

\* The value DictReader files the surplus cells of a long row under (a list,
\* never read as a cell by the code).
RestV == <<-2>>

\* csv.DictReader.__next__: dict(zip(fieldnames, row)); a long row gets
\* d[None] = row[len(fieldnames):], a short row gets None for the missing keys.
RECURSIVE ZipFrom(_, _, _, _)
ZipFrom(fn, cells, i, d) ==
    IF i > Len(fn) THEN d
    ELSE ZipFrom(fn, cells, i + 1,
                 DictSet(d, fn[i], IF i <= Len(cells) THEN cells[i] ELSE NoneV))

RawRow(fn, cells) ==
    LET d == ZipFrom(fn, cells, 1, <<>>)
    IN  IF Len(cells) > Len(fn) THEN DictSet(d, NoneV, RestV) ELSE d

\* { (k.strip() if isinstance(k, str) else k): v for k, v in raw_row.items() }
TrimKey(k) == IF k = NoneV THEN k ELSE Strip(k)

RECURSIVE ViewFrom(_, _, _)
ViewFrom(raw, i, d) ==
    IF i > Len(raw) THEN d
    ELSE ViewFrom(raw, i + 1, DictSet(d, TrimKey(raw[i].k), raw[i].v))

RowView(raw) == ViewFrom(raw, 1, <<>>)

\* row.get(k) or ""
GetOrEmpty(row, k) ==
    LET v == DictGet(row, k) IN IF v = NoneV THEN <<>> ELSE v

Returned(v) == [raised |-> FALSE, v |-> v]
Raised      == [raised |-> TRUE, v |-> <<>>]

\* for k in row.keys(): if k.strip().lower() == trimmed.lower(): return ...
\* k.strip() on the key None raises AttributeError.
RECURSIVE ScanKeys(_, _, _)
ScanKeys(row, trimmed, i) ==
    IF i > Len(row) THEN Returned(<<>>)
    ELSE IF row[i].k = NoneV THEN Raised
    ELSE IF Lower(Strip(row[i].k)) = Lower(trimmed) THEN Returned(GetOrEmpty(row, row[i].k))
    ELSE ScanKeys(row, trimmed, i + 1)

get_cell(row, key) ==
    IF DictHas(row, key) THEN Returned(GetOrEmpty(row, key))
    ELSE IF DictHas(row, Strip(key)) THEN Returned(GetOrEmpty(row, Strip(key)))
    ELSE ScanKeys(row, Strip(key), 1)

\* for old_part in old_field.split("|"): the pairs one row appends.
RECURSIVE PartsFrom(_, _, _)
PartsFrom(parts, new_label, i) ==
    IF i > Len(parts) THEN <<>>
    ELSE LET old_label == Strip(parts[i])
         IN  (IF old_label # <<>> THEN << <<old_label, new_label>> >> ELSE <<>>)
             \o PartsFrom(parts, new_label, i + 1)

\* The body of `for raw_row in reader`: what it appends, or that it raised.
\* get_cell(row, "new_province") is evaluated before get_cell(row, "old_province").
RowPairs(fn, cells) ==
    LET row == RowView(RawRow(fn, cells))
        n   == get_cell(row, kNew)
        o   == IF n.raised THEN Raised ELSE get_cell(row, kOld)
        new_label == Strip(n.v)
        old_field == Strip(o.v)
    IN  IF n.raised \/ o.raised THEN [raised |-> TRUE, pairs |-> <<>>, new |-> n, old |-> o]
        ELSE [raised |-> FALSE,
              pairs  |-> IF new_label = <<>> \/ old_field = <<>> THEN <<>>
                         ELSE PartsFrom(Split(old_field, 124), new_label, 1),
              new    |-> n,
              old    |-> o]


---------------------------------------------------------------------------
(* rag/rag_service.py: RAGIndex                                            *)
(*                                                                         *)
(* The corpus a build receives is [ver |-> number of the build, n |-> its  *)
(* length]; its i-th fact is <<ver, i>>.  The similarity index is NoIndex  *)
(* (None) or [set |-> TRUE, ver, ntotal]: an IndexFlatIP created by build  *)
(* ver and holding ntotal vectors.  Scores are left out of the results.    *)

MaxFacts  == 2      \* facts query_triples_for_context returns to one build
MaxBuilds == 2      \* calls of RAGIndex.build
MaxK      == 2      \* the k of a search

NoIndex     == [set |-> FALSE, ver |-> 0, ntotal |-> 0]
EmptyCorpus == [ver |-> 0, n |-> 0]
NoLoc       == [active |-> FALSE, k |-> 0, startDone |-> -1, idx75 |-> NoIndex,
                read79 |-> FALSE, idx79 |-> NoIndex, idx |-> <<>>, pos |-> 1,
                corpora |-> {}, results |-> <<>>]
NoOut       == [status |-> "none", results |-> <<>>, k |-> 0, startDone |-> -1]

\* The facts the most recent completed build received; -1 when none completed.
LastDone(bs) ==
    LET done == {b \in 1..Len(bs) : bs[b].done}
    IN  IF done = {} THEN -1
        ELSE bs[CHOOSE b \in done : \A c \in done : c <= b].n

\* if not self.corpus
CorpusEmpty(c) == c.n = 0

\* search without its guard on self.index.
SearchGuardNever(idx) == FALSE

\* if not self.index
SearchGuard(idx) == ~idx.set

\* What IndexFlatIP.search(q, k) can return for idx[0]: the positions of the
\* min(k, ntotal) nearest vectors, in an order the embeddings decide, then -1.
RECURSIVE Picks(_, _)
Picks(S, cnt) ==
    IF cnt = 0 THEN {<<>>}
    ELSE UNION {{<<x>> \o q : q \in Picks(S \ {x}, cnt - 1)} : x \in S}

Min(a, b) == IF a <= b THEN a ELSE b

FaissSearch(ntotal, k) ==
    {q \o [j \in 1..(k - Min(k, ntotal)) |-> -1] : q \in Picks(0..(ntotal - 1), Min(k, ntotal))}

\* build, line 62: self.corpus = query_triples_for_context()
BuildQuery(n) ==
    /\ buildPc = "idle"
    /\ Len(builds) < MaxBuilds
    /\ corpus' = [ver |-> Len(builds) + 1, n |-> n]
    /\ builds' = Append(builds, [n |-> n, done |-> FALSE])
    /\ buildPc' = "queried"
    /\ UNCHANGED <<index, searchPc, searchLoc, searchOut>>

\* build, lines 63-69: the empty-corpus return, else the encoding (local).
BuildCheck ==
    /\ buildPc = "queried"
    /\ IF CorpusEmpty(corpus)
       THEN /\ index' = NoIndex
            /\ buildPc' = "idle"
            /\ builds' = [builds EXCEPT ![Len(builds)].done = TRUE]
       ELSE /\ buildPc' = "encoded"
            /\ UNCHANGED <<index, builds>>
    /\ UNCHANGED <<corpus, searchPc, searchLoc, searchOut>>

\* build, line 70: self.index = faiss.IndexFlatIP(d), still empty.
BuildCreate ==
    /\ buildPc = "encoded"
    /\ index' = [set |-> TRUE, ver |-> Len(builds), ntotal |-> 0]
    /\ buildPc' = "created"
    /\ UNCHANGED <<corpus, builds, searchPc, searchLoc, searchOut>>

\* build, lines 71-72: self.index.add(emb)
BuildAdd ==
    /\ buildPc = "created"
    /\ index' = [index EXCEPT !.ntotal = builds[Len(builds)].n]
    /\ buildPc' = "idle"
    /\ builds' = [builds EXCEPT ![Len(builds)].done = TRUE]
    /\ UNCHANGED <<corpus, searchPc, searchLoc, searchOut>>

Finish(status, loc) ==
    /\ searchOut' = [status |-> status, results |-> loc.results, k |-> loc.k,
                     startDone |-> loc.startDone]
    /\ searchLoc' = NoLoc
    /\ searchPc' = "idle"

\* search, lines 75-78: the guard on self.index, then the query encoding (local).
SearchStart(k) ==
    /\ searchPc = "idle"
    /\ LET loc == [NoLoc EXCEPT !.active = TRUE, !.k = k, !.idx75 = index,
                                !.startDone = LastDone(builds)]
       IN  IF SearchGuard(index)
           THEN Finish("returned", loc)
           ELSE /\ searchLoc' = loc
                /\ searchPc' = "encoded"
                /\ UNCHANGED searchOut
    /\ UNCHANGED <<corpus, index, buildPc, builds>>

\* search, line 79: self.index.search(q, k); on None it raises AttributeError.
SearchIndex ==
    /\ searchPc = "encoded"
    /\ IF ~index.set
       THEN Finish("raised", searchLoc)
       ELSE /\ \E idx \in FaissSearch(index.ntotal, searchLoc.k) :
                  searchLoc' = [searchLoc EXCEPT !.read79 = TRUE, !.idx79 = index,
                                                 !.idx = idx]
            /\ searchPc' = "loop"
            /\ UNCHANGED searchOut
    /\ UNCHANGED <<corpus, index, buildPc, builds>>

\* search, lines 81-82: the next i, and the test i >= 0 and i < len(self.corpus)
LoopCheck ==
    /\ searchPc = "loop"
    /\ searchLoc.pos <= Len(searchLoc.idx)
    /\ LET i == searchLoc.idx[searchLoc.pos]
       IN  IF i >= 0
           THEN IF i < corpus.n
                THEN /\ searchLoc' = [searchLoc EXCEPT !.corpora = @ \cup {corpus}]
                     /\ searchPc' = "append"
                ELSE /\ searchLoc' = [searchLoc EXCEPT !.corpora = @ \cup {corpus},
                                                       !.pos = @ + 1]
                     /\ searchPc' = "loop"
           ELSE /\ searchLoc' = [searchLoc EXCEPT !.pos = @ + 1]
                /\ searchPc' = "loop"
    /\ UNCHANGED <<corpus, index, buildPc, builds, searchOut>>

\* search, line 83: results.append((self.corpus[i], float(s))); self.corpus is
\* read again, and an i past its end raises IndexError.
LoopAppend ==
    /\ searchPc = "append"
    /\ LET i == searchLoc.idx[searchLoc.pos]
       IN  IF i < corpus.n
           THEN /\ searchLoc' = [searchLoc EXCEPT !.corpora = @ \cup {corpus},
                                                  !.results = Append(@, <<corpus.ver, i>>),
                                                  !.pos = @ + 1]
                /\ searchPc' = "loop"
                /\ UNCHANGED searchOut
           ELSE Finish("raised", searchLoc)
    /\ UNCHANGED <<corpus, index, buildPc, builds>>

\* search, line 84: return results
SearchReturn ==
    /\ searchPc = "loop"
    /\ searchLoc.pos > Len(searchLoc.idx)
    /\ Finish("returned", searchLoc)
    /\ UNCHANGED <<corpus, index, buildPc, builds>>


---------------------------------------------------------------------------
(* Actions of the label index, the parser and the merge.                   *)

\* build_label_index(g), the whole call.
BuildIndex ==
    /\ idxPc = "start"
    /\ label_to_uri' = build_label_index(provLabels)
    /\ idxPc' = "built"
    /\ UNCHANGED <<provLabels, resolved, parseVars, mergeVars, ragVars>>

\* resolve(q) against the built index.
Resolve(q) ==
    /\ idxPc = "built"
    /\ resolved' = resolved \cup {[q |-> q, r |-> resolve(label_to_uri, q)]}
    /\ UNCHANGED <<provLabels, label_to_uri, idxPc, parseVars, mergeVars, ragVars>>

NoCells == [new |-> Returned(<<>>), old |-> Returned(<<>>)]

\* One turn of `for raw_row in reader` on the next data row of the file.
ReadRow(cells) ==
    /\ parsePc = "reading"
    /\ Len(rowsRead) < MaxRows
    /\ LET r == RowPairs(fieldnames, cells)
       IN  /\ rowsRead' = Append(rowsRead, cells)
           /\ lastCells' = [new |-> r.new, old |-> r.old]
           /\ mappings' = mappings \o r.pairs
           /\ parsePc' = IF r.raised THEN "raised" ELSE "reading"
    /\ UNCHANGED <<fieldnames, idxVars, mergeVars, ragVars>>

\* The reader is exhausted: return mappings.
ParseReturn ==
    /\ parsePc = "reading"
    /\ parsePc' = "returned"
    /\ UNCHANGED <<fieldnames, rowsRead, mappings, lastCells, idxVars, mergeVars, ragVars>>

\* One turn of `for old_label, new_label in mappings`.
MergeStep ==
    /\ mergePc = "loop"
    /\ pairIdx < Len(mappings)
    /\ merged' = MergePair(merged, label_to_uri, mappings[pairIdx + 1])
    /\ pairIdx' = pairIdx + 1
    /\ UNCHANGED <<mergePc, idxVars, parseVars, ragVars>>

\* return merged
MergeReturn ==
    /\ mergePc = "loop"
    /\ pairIdx = Len(mappings)
    /\ mergePc' = "returned"
    /\ UNCHANGED <<pairIdx, merged, idxVars, parseVars, ragVars>>

---------------------------------------------------------------------------
(* Specifications.                                                         *)

IdxIdle ==
    /\ provLabels = <<>> /\ label_to_uri = <<>> /\ idxPc = "start" /\ resolved = {}

ParseIdle ==
    /\ fieldnames = <<>> /\ rowsRead = <<>> /\ mappings = <<>>
    /\ lastCells = NoCells /\ parsePc = "reading"

MergeIdle ==
    /\ pairIdx = 0 /\ merged = {} /\ mergePc = "loop"

RagIdle ==
    /\ corpus = EmptyCorpus /\ index = NoIndex /\ buildPc = "idle" /\ builds = <<>>
    /\ searchPc = "idle" /\ searchLoc = NoLoc /\ searchOut = NoOut

\* The label index: build_label_index on a graph, then lookups.
InitIndex ==
    /\ provLabels \in SeqsUpTo(LabelTriples, MaxEntries)
    /\ label_to_uri = <<>> /\ idxPc = "start" /\ resolved = {}
    /\ ParseIdle /\ MergeIdle /\ RagIdle

NextIndex ==
    \/ BuildIndex
    \/ \E q \in Queries : Resolve(q)

SpecIndex == InitIndex /\ [][NextIndex]_vars

\* The parser: a header line, then the data rows one by one.
InitParse ==
    /\ fieldnames \in HeaderLists
    /\ rowsRead = <<>> /\ mappings = <<>> /\ lastCells = NoCells /\ parsePc = "reading"
    /\ IdxIdle /\ MergeIdle /\ RagIdle

NextParse ==
    \/ \E cells \in CellRows : ReadRow(cells)
    \/ ParseReturn

SpecParse == InitParse /\ [][NextParse]_vars

\* merge_graph: lines 81-89 have run (empty output graph, index built).
InitMerge ==
    /\ provLabels \in MergeGraphs
    /\ label_to_uri = build_label_index(provLabels)
    /\ idxPc = "built" /\ resolved = {}
    /\ mappings \in SeqsUpTo(PairUniverse, MaxPairs)
    /\ fieldnames = <<>> /\ rowsRead = <<>> /\ lastCells = NoCells /\ parsePc = "returned"
    /\ MergeIdle /\ RagIdle

NextMerge ==
    \/ MergeStep
    \/ MergeReturn

SpecMerge == InitMerge /\ [][NextMerge]_vars

\* RAGIndex used by one caller at a time.
InitRag == IdxIdle /\ ParseIdle /\ MergeIdle /\ RagIdle

RagStutter == UNCHANGED <<idxVars, parseVars, mergeVars>>

\* One caller at a time: a call runs to its end before the next one starts.
NextRagSeq ==
    \/ \E n \in 0..MaxFacts : searchPc = "idle" /\ BuildQuery(n) /\ RagStutter
    \/ searchPc = "idle" /\ BuildCheck /\ RagStutter
    \/ searchPc = "idle" /\ BuildCreate /\ RagStutter
    \/ searchPc = "idle" /\ BuildAdd /\ RagStutter
    \/ \E k \in 1..MaxK : buildPc = "idle" /\ SearchStart(k) /\ RagStutter
    \/ buildPc = "idle" /\ SearchIndex /\ RagStutter
    \/ buildPc = "idle" /\ LoopCheck /\ RagStutter
    \/ buildPc = "idle" /\ LoopAppend /\ RagStutter
    \/ buildPc = "idle" /\ SearchReturn /\ RagStutter

SpecRagSeq == InitRag /\ [][NextRagSeq]_vars

\* RAGIndex behind the request layer: the startup build has completed
\* (startup_event) before a search is served; a rebuild runs while searches
\* are served by other threads, their steps interleaving.
Started == builds # <<>> /\ builds[1].done

NextRag ==
    \/ \E n \in 0..MaxFacts : BuildQuery(n) /\ RagStutter
    \/ BuildCheck /\ RagStutter
    \/ BuildCreate /\ RagStutter
    \/ BuildAdd /\ RagStutter
    \/ \E k \in 1..MaxK : Started /\ SearchStart(k) /\ RagStutter
    \/ SearchIndex /\ RagStutter
    \/ LoopCheck /\ RagStutter
    \/ LoopAppend /\ RagStutter
    \/ SearchReturn /\ RagStutter

SpecRag == InitRag /\ [][NextRag]_vars

Spec == SpecMerge

---------------------------------------------------------------------------
(* Claims about merge_graph, checked under SpecMerge.                      *)

TriplesOf(g, s, p) == {t \in g : t.s = s /\ t.p = p}

\* The identifiers merge_graph synthesized: subjects under the local namespace.
MintedIds(g) == {t.s : t \in {x \in g : x.s.ns = ENTNS}}

Processed == 1..pairIdx

OldOf(i) == resolve(label_to_uri, mappings[i][1])
NewResolves(i) == resolve(label_to_uri, mappings[i][2]) # NoneURI

\* C1: every synthesized identifier in the output graph carries exactly one
\* type=Province triple, exactly one label triple and exactly one
\* canonicalLabel triple, however many pairs reference it and whatever the
\* spelling of their new labels.
C1_MintedOnce ==
    \A u \in MintedIds(merged) :
        /\ TriplesOf(merged, u, "rdf:type") = {Triple(u, "rdf:type", EXProvince)}
        /\ Cardinality(TriplesOf(merged, u, "rdfs:label")) = 1
        /\ Cardinality(TriplesOf(merged, u, "ex:canonicalLabel")) = 1

IsEdge(t) == t.p \in {"ex:formedBy", "ex:mergedInto"}

\* C2: a turn of the loop on a pair whose old label the index does not resolve
\* adds no formedBy and no mergedInto edge and nothing about an old-side
\* entity: all it may add is the three triples of the identifier minted for
\* the new label (nothing when the new label resolves); the graph built so far
\* is kept and the loop moves on to the next pair.
C2_SkipUnresolvedOld ==
    [][ (pairIdx' = pairIdx + 1 /\ OldOf(pairIdx + 1) = NoneURI) =>
          LET new_label == mappings[pairIdx + 1][2]
              added     == merged' \ merged
          IN  /\ merged \subseteq merged'
              /\ \A t \in added : ~IsEdge(t)
              /\ added \subseteq (IF resolve(label_to_uri, new_label) = NoneURI
                                  THEN MintTriples(MintURI(new_label), new_label)
                                  ELSE {})
              /\ mergePc' = "loop" ]_vars

\* An unresolved pair was skipped and a later pair still produced its edges.
C2_Witness ==
    \E i \in Processed : \E j \in Processed :
        /\ i < j
        /\ OldOf(i) = NoneURI
        /\ ~NewResolves(i)
        /\ OldOf(j) # NoneURI
        /\ Triple(NewURI(label_to_uri, mappings[j][2]), "ex:formedBy", OldOf(j)) \in merged

sSlugAscii == <<100, 97, 45, 110, 97, 110, 103>>    \* "da-nang"
sSlugCode  == <<100, 224, 45, 110, 7861, 110, 103>>    \* "dà-nẵng"

DaNangMinted == \E i \in Processed : mappings[i][2] = sDaNang /\ ~NewResolves(i)

\* C3 as claimed: with "Đà Nẵng" absent from the index, the identifier minted
\* for it is the local namespace followed by "da-nang".
C3_SlugDaNang ==
    DaNangMinted =>
        /\ Triple(URIRef(ENTNS, sSlugAscii), "rdf:type", EXProvince) \in merged
        /\ \A t \in merged :
               (t.p = "rdfs:label" /\ t.o = Literal(sDaNang)) => t.s = URIRef(ENTNS, sSlugAscii)

\* C3, amended: with "Đà Nẵng" absent from the index, the identifier minted
\* for it is the local namespace followed by "dà-nẵng": trimmed, lower-cased,
\* the space replaced by a hyphen and đ by d, the accented vowels kept.
C3_SlugKeepsVowels ==
    DaNangMinted =>
        /\ Triple(URIRef(ENTNS, sSlugCode), "rdf:type", EXProvince) \in merged
        /\ \A t \in merged :
               (t.p = "rdfs:label" /\ t.o = Literal(sDaNang)) => t.s = URIRef(ENTNS, sSlugCode)

\* "Đà Nẵng" was minted in a run against a non-empty index, with its edge.
C3_Witness ==
    /\ DaNangMinted
    /\ label_to_uri # <<>>
    /\ \E t \in merged : t.p = "ex:formedBy" /\ t.s.ns = ENTNS /\ t.s.val = Slugify(sDaNang)

FormedBy(g)   == {<<t.s, t.o>> : t \in {x \in g : x.p = "ex:formedBy"}}
MergedInto(g) == {<<t.o, t.s>> : t \in {x \in g : x.p = "ex:mergedInto"}}

\* The <<new, old>> identifier pairs of the processed pairs whose old label resolved.
ResolvedPairs ==
    {<<NewURI(label_to_uri, mappings[i][2]), OldOf(i)>> : i \in {j \in Processed : OldOf(j) # NoneURI}}

\* C9: after any prefix of the pairs, formedBy(n, o) is in the output graph
\* iff mergedInto(o, n) is, and both are exactly when a processed pair has its
\* old label resolved to o and its new label resolved or minted to n; and no
\* turn of the loop removes or changes a triple.
C9_EdgesExact ==
    /\ [](FormedBy(merged) = MergedInto(merged) /\ FormedBy(merged) = ResolvedPairs)
    /\ [][merged \subseteq merged']_vars

\* Two pairs processed: one skipped, one with both edges in the graph.
C9_Witness ==
    /\ pairIdx = 2
    /\ Cardinality(ResolvedPairs) = 1
    /\ \E i \in Processed : OldOf(i) = NoneURI
    /\ Cardinality(FormedBy(merged)) = 1

\* C10: both endpoints of every formedBy(new, old) edge of the output graph
\* carry a canonicalLabel triple, so the retrieval query returns the edge.
C10_EdgesLabelled ==
    \A e \in FormedBy(merged) :
        /\ TriplesOf(merged, e[1], "ex:canonicalLabel") # {}
        /\ TriplesOf(merged, e[2], "ex:canonicalLabel") # {}


---------------------------------------------------------------------------
(* Claim about the label index, checked under SpecIndex.                   *)

\* The positions of the Literal-labelled entries whose normalized label is key.
EntriesFor(key) ==
    {i \in 1..Len(provLabels) :
        provLabels[i].o.kind = "lit" /\ NormKey(provLabels[i].o.val) = key}

FirstSeen(key) ==
    provLabels[CHOOSE i \in EntriesFor(key) : \A j \in EntriesFor(key) : i <= j].s

IndexedKeys == {k \in {NormKey(LabelObj.val) : LabelObj \in LabelObjects} : EntriesFor(k) # {}}

\* C6: the built index binds each normalized label to the identifier of the
\* first entry carrying it, and to nothing else; resolve(q) answers that
\* identifier when q normalizes to a bound label and absent otherwise.
C6_FirstSeenWins ==
    idxPc = "built" =>
        /\ DictKeys(label_to_uri) = IndexedKeys
        /\ \A k \in IndexedKeys : DictGet(label_to_uri, k) = FirstSeen(k)
        /\ \A a \in resolved :
               a.r = IF EntriesFor(NormKey(a.q)) # {} THEN FirstSeen(NormKey(a.q)) ELSE NoneURI

\* [(uriA, "Ab"), (uriB, "ab ")]: resolve("AB") answered uriA, resolve("U") absent.
C6_Witness ==
    /\ idxPc = "built"
    /\ provLabels = <<Triple(uriA, "rdfs:label", Literal(sAb)),
                      Triple(uriB, "rdfs:label", Literal(sabSp))>>
    /\ [q |-> sAB, r |-> uriA] \in resolved
    /\ [q |-> sU, r |-> NoneURI] \in resolved

---------------------------------------------------------------------------
(* Claims about parse_mapping_csv, checked under SpecParse.                *)

LastRow == rowsRead[Len(rowsRead)]

\* The cell of column i of a data row; "" when the row is too short.
CellAt(cells, i) == IF i <= Len(cells) THEN cells[i] ELSE <<>>

ExactCols(fn, name)   == {i \in 1..Len(fn) : fn[i] = name}
TrimmedCols(fn, name) == {i \in 1..Len(fn) : Strip(fn[i]) = name}
FoldedCols(fn, name)  == {i \in 1..Len(fn) : Lower(Strip(fn[i])) = name}

\* The columns the stated priority selects: exact, else trimmed, else
\* trimmed and case-folded.
PriorityCols(fn, name) ==
    IF ExactCols(fn, name) # {} THEN ExactCols(fn, name)
    ELSE IF TrimmedCols(fn, name) # {} THEN TrimmedCols(fn, name)
    ELSE FoldedCols(fn, name)

UsedCell(name) == IF name = kNew THEN lastCells.new.v ELSE lastCells.old.v

\* C4: for each logical column name and every row, the value used is the one
\* under the exactly-named header if there is one, else under the header
\* equal after trimming, else under the header equal after trimming and
\* case-folding ("" when no header matches); stated where the selected tier
\* holds a single column, so that the value is determined.
C4_HeaderPriority ==
    (rowsRead # <<>> /\ parsePc # "raised") =>
        \A name \in {kNew, kOld} :
            LET cols == PriorityCols(fieldnames, name)
            IN  /\ cols = {} => UsedCell(name) = <<>>
                /\ Cardinality(cols) = 1 =>
                       UsedCell(name) = CellAt(LastRow, CHOOSE i \in cols : TRUE)

\* The trimmed value the parser is to use for a column of a row; "" when the
\* column is missing.
ValueOf(fn, cells, name) ==
    LET c == get_cell(RowView(RawRow(fn, cells)), name)
    IN  IF c.raised THEN <<>> ELSE Strip(c.v)

\* The position of the first '|' of s after position a, or Len(s) + 1.
NextCut(s, a) ==
    LET cuts == {i \in (a + 1)..Len(s) : s[i] = 124} \cup {Len(s) + 1}
    IN  CHOOSE c \in cuts : \A e \in cuts : c <= e

\* The trimmed non-empty segments of s between its '|' characters, in order.
RECURSIVE Segments(_, _)
Segments(s, a) ==
    IF a > Len(s) THEN <<>>
    ELSE LET b   == NextCut(s, a)
             seg == Strip(SubSeq(s, a + 1, b - 1))
         IN  (IF seg # <<>> THEN <<seg>> ELSE <<>>) \o Segments(s, b)

RECURSIVE ExpectedPairs(_, _, _)
ExpectedPairs(fn, rows, r) ==
    IF r > Len(rows) THEN <<>>
    ELSE LET new  == ValueOf(fn, rows[r], kNew)
             old  == ValueOf(fn, rows[r], kOld)
             segs == IF new = <<>> \/ old = <<>> THEN <<>> ELSE Segments(old, 0)
         IN  [i \in 1..Len(segs) |-> <<segs[i], new>>] \o ExpectedPairs(fn, rows, r + 1)

\* C5: for every sequence of rows the parser returns, and what it returns is
\* exactly: per row in input order, nothing when the trimmed new_province or
\* old_province value is empty or missing, else one pair (segment, new label)
\* per trimmed non-empty '|'-segment of the old_province value, in split order.
C5_ParsedPairs ==
    /\ parsePc # "raised"
    /\ parsePc = "returned" => mappings = ExpectedPairs(fieldnames, rowsRead, 1)

---------------------------------------------------------------------------
(* Claims about RAGIndex.                                                  *)

\* The (index, corpus) pairs that exist between builds: the constructor's,
\* and the one each build leaves when it completes.
CompletePairs ==
    {[index |-> NoIndex, corpus |-> EmptyCorpus]} \cup
    {[index  |-> IF builds[b].n = 0 THEN NoIndex
                 ELSE [set |-> TRUE, ver |-> b, ntotal |-> builds[b].n],
      corpus |-> [ver |-> b, n |-> builds[b].n]] : b \in 1..Len(builds)}

\* C7: with searches interleaving a rebuild, everything one search reads (the
\* index at its guard, the index it queries, the corpus it indexes into) is
\* from one complete pair, the old one or the new one.
C7_AtomicSwap ==
    searchLoc.active =>
        \E pr \in CompletePairs :
            /\ searchLoc.idx75 = pr.index
            /\ searchLoc.read79 => searchLoc.idx79 = pr.index
            /\ searchLoc.corpora \subseteq {pr.corpus}

\* C8: a search begun when no build has completed, or when the most recent
\* completed build received zero facts, returns the empty sequence and does
\* not raise, for every k; and a build that received zero facts has
\* completed, leaving no index, whatever the build before it left.
C8_EmptySearch ==
    /\ (searchOut.status # "none" /\ searchOut.startDone \in {-1, 0}) =>
           (searchOut.status = "returned" /\ searchOut.results = <<>>)
    /\ (buildPc = "idle" /\ builds # <<>> /\ builds[Len(builds)].n = 0) =>
           (builds[Len(builds)].done /\ index = NoIndex)

\* A non-empty build, then an empty rebuild, then a search with the largest k.
C8_Witness ==
    /\ Len(builds) = 2
    /\ builds[1].n > 0 /\ builds[1].done
    /\ builds[2].n = 0 /\ builds[2].done
    /\ searchOut.status = "returned"
    /\ searchOut.startDone = 0
    /\ searchOut.k = MaxK


============================================================================
